---- MODULE Spec2Model ----
(***************************************************************************)
(* A model of Lib/asyncio/asyncgraph.py: the construction of the logical   *)
(* call graph (get_async_graph) and its rendering (async_graph_to_dot).    *)
(*                                                                         *)
(* Objects are modelled by identity: a frame is a number, an awaitable is  *)
(* a number, and a graph node is its index in the arena `nodes`, whose     *)
(* forward edges are `awaited_by[index]`.  None is 0.                      *)
(***************************************************************************)
EXTENDS Integers, Sequences, FiniteSets, TLC

\* ------------------------------------------------------------------ bounds
\* Number of awaitables the runtime holds.
NumAw == 3
\* Longest f_back chain of the caller.
MaxDepth == 3
\* Most add_awaiter registrations the runtime has made when the graph is asked for.
MaxReg == 4
\* Most nodes and most edges of a graph handed to async_graph_to_dot.
NumNodes == 3
MaxEdges == 4
\* Longest node text rendered.
MaxLabelLen == 3
\* Most error nodes constructed, and most elements added to their awaiter sets.
MaxErr == 3
MaxAdds == 3

None == 0
Awaitables == 1 .. NumAw

VARIABLES
    \* ---- the runtime, as get_async_graph finds it
    loop,            \* whether an event loop runs: "none" or "running"
    cur_task,        \* _current_task(loop): an awaitable or None
    awaiters,        \* awaiters[a]: the set a._awaiters
    stack,           \* stack[a]: frames a's expansion unrolls to, innermost first
    cr_frame,        \* cur_task.get_coro().cr_frame
    depth,           \* frames 1 .. depth are the caller's f_back chain
    \* ---- the nodes built so far
    nodes,           \* arena of node objects
    awaited_by,      \* awaited_by[n]: node n's awaited_by set
    \* ---- locals of get_async_graph
    pc,
    frame,
    head_node,
    tail_node,
    task_node,
    task_head_node,
    node_q,
    terminal_async_nodes,
    awaitable_to_head_node,
    ret,             \* the returned value, once pc = "done"
    calls,           \* log of the calls made on awaitables and of enqueues
    \* ---- async_graph_to_dot: its argument and its locals
    head,
    dpc,
    graph,           \* the document, line by line
    seen,
    next_id,
    node_to_id,
    q,
    \* ---- AsyncGraphNodeError: the awaiter sets of error nodes
    sets,            \* the set objects; sets[1] is the default of line 85
    self_awaiters,   \* self_awaiters[n]: the set object error node n._awaiters refers to
    defaulted        \* the error nodes constructed with no awaiters argument

runtime == <<loop, cur_task, awaiters, stack, cr_frame, depth>>
locals == <<pc, frame, head_node, tail_node, task_node, task_head_node, node_q,
            terminal_async_nodes, awaitable_to_head_node, ret, calls>>
dvars == <<head, dpc, graph, seen, next_id, node_to_id, q>>
evars == <<sets, self_awaiters, defaulted>>
vars == <<runtime, nodes, awaited_by, locals, dvars, evars>>

\* ------------------------------------------------------------------ frames
\* frame.f_back for a frame of the caller's chain.
f_back(f) == IF f < depth THEN f + 1 ELSE None

\* A frame of a suspended coroutine: on no f_back chain of the caller.
CoroFrame(a) == MaxDepth + a

\* ------------------------------------------------------------------- nodes
AsyncGraphNodeFrame(f) ==
    [kind |-> "frame", frame |-> f, awaitable |-> None, text |-> ""]

AsyncGraphNodeAsyncGraphAwaitable(a) ==
    [kind |-> "awaitable", frame |-> None, awaitable |-> a, text |-> ""]

AsyncGraphNodeError(t) ==
    [kind |-> "error", frame |-> None, awaitable |-> None, text |-> t]

ExitFrameText == "Could not find exit frame for current task"
EntryPointText == "Could not link current task to entry point."

\* The one set object that exists before any error node: the default value
\* of the awaiters parameter, made when line 85 is executed.
DefaultAwaiters == 1

\* A graph under construction: the arena, the edge sets, and for each node
\* the set object its _awaiters refers to (None for the nodes that have no
\* such attribute).  A node is constructed the way get_async_graph does: an
\* error node with no awaiters argument, so with the default's set object.
NewNode(g, rec) ==
    [nodes |-> Append(g.nodes, rec),
     awaited_by |-> Append(g.awaited_by, {}),
     self_awaiters |-> Append(g.self_awaiters,
                              IF rec.kind = "error" THEN DefaultAwaiters ELSE None),
     defaulted |-> IF rec.kind = "error"
                   THEN g.defaulted \cup {Len(g.nodes) + 1}
                   ELSE g.defaulted]

\* src.awaited_by.add(dst)
AddEdge(g, src, dst) ==
    [g EXCEPT !.awaited_by[src] = @ \cup {dst}]

\* node.get_awaiters(): the awaitable's own set for an awaitable's node, the
\* set object _awaiters refers to for an error node, a new empty set for a
\* frame node.
get_awaiters(g, n) ==
    CASE g.nodes[n].kind = "awaitable" -> awaiters[g.nodes[n].awaitable]
      [] g.nodes[n].kind = "error" -> sets[g.self_awaiters[n]]
      [] OTHER -> {}

\* awaitable.makeAsyncGraphNodes(): a chain of frame nodes for the
\* awaitable's own stack, innermost first, ending in the awaitable's node.
\* The result is the graph, the tail node and the head node.
RECURSIVE UnrollStack(_, _, _, _)
UnrollStack(g, frames, prev, hd) ==
    IF frames = <<>>
    THEN [g |-> g, prev |-> prev, head |-> hd]
    ELSE LET g1 == NewNode(g, AsyncGraphNodeFrame(Head(frames)))
             n == Len(g1.nodes)
             g2 == IF prev = None THEN g1 ELSE AddEdge(g1, prev, n)
         IN UnrollStack(g2, Tail(frames), n, IF hd = None THEN n ELSE hd)

makeAsyncGraphNodes(g, a) ==
    LET u == UnrollStack(g, stack[a], None, None)
        g1 == NewNode(u.g, AsyncGraphNodeAsyncGraphAwaitable(a))
        tail == Len(g1.nodes)
    IN [g |-> IF u.prev = None THEN g1 ELSE AddEdge(g1, u.prev, tail),
        tail |-> tail,
        head |-> IF u.head = None THEN tail ELSE u.head]

\* All orders in which a for loop may iterate a set.
Orders(S) ==
    {s \in [1 .. Cardinality(S) -> S] : \A i, j \in DOMAIN s : i # j => s[i] # s[j]}

\* The graph built so far.
G == [nodes |-> nodes, awaited_by |-> awaited_by,
      self_awaiters |-> self_awaiters, defaulted |-> defaulted]

Call(op, arg) == [op |-> op, arg |-> arg]

\* ------------------------------------------------------- get_async_graph
\* events.get_running_loop() with no loop running: it raises RuntimeError
\* and returns nothing, None included.
NoRunningLoop == loop = "none"

\* Fallback mode: `loop is None or _current_task(loop) is None`, of the loop
\* that get_running_loop returned.
InFallbackMode == ~NoRunningLoop /\ cur_task = None

\* Cooperative mode: a loop and a current task.
Cooperative == ~NoRunningLoop /\ cur_task # None

\* Line 131 with no loop running: the RuntimeError leaves get_async_graph.
RaiseNoRunningLoop ==
    /\ pc = "start"
    /\ NoRunningLoop
    /\ pc' = "raised"
    /\ UNCHANGED <<evars, dvars, loop, cur_task, awaiters, stack, cr_frame, depth,
                   nodes, awaited_by, frame, head_node, tail_node, task_node,
                   task_head_node, node_q, terminal_async_nodes,
                   awaitable_to_head_node, ret, calls>>

\* The while loop of the fallback: one frame node per frame of the chain.
RECURSIVE FallbackWalk(_)
FallbackWalk(st) ==
    IF f_back(st.frame) = None
    THEN st
    ELSE LET fr == f_back(st.frame)
             g1 == NewNode(st.g, AsyncGraphNodeFrame(fr))
             new_node == Len(g1.nodes)
         IN FallbackWalk([g |-> AddEdge(g1, st.tail, new_node),
                          frame |-> fr, tail |-> new_node])

Fallback ==
    /\ pc = "start"
    /\ InFallbackMode
    /\ LET g0 == NewNode(G, AsyncGraphNodeFrame(frame))
           new_node == Len(g0.nodes)
           w == FallbackWalk([g |-> g0, frame |-> frame, tail |-> new_node])
       IN /\ nodes' = w.g.nodes
          /\ awaited_by' = w.g.awaited_by
          /\ self_awaiters' = w.g.self_awaiters
          /\ defaulted' = w.g.defaulted
          /\ frame' = w.frame
          /\ head_node' = new_node
          /\ tail_node' = w.tail
          /\ ret' = new_node
    /\ pc' = "done"
    /\ UNCHANGED <<sets, dvars, loop, cur_task, awaiters, stack, cr_frame, depth, task_node,
                   task_head_node, node_q, terminal_async_nodes,
                   awaitable_to_head_node, calls>>

\* Cooperative mode: expand the current task and seed the worklist.
ExpandCurTask ==
    /\ pc = "start"
    /\ Cooperative
    /\ LET m == makeAsyncGraphNodes(G, cur_task)
       IN /\ nodes' = m.g.nodes
          /\ awaited_by' = m.g.awaited_by
          /\ self_awaiters' = m.g.self_awaiters
          /\ defaulted' = m.g.defaulted
          /\ task_node' = m.tail
          /\ task_head_node' = m.head
          /\ head_node' = m.head
          /\ tail_node' = m.tail
          /\ node_q' = <<m.tail>>
          /\ awaitable_to_head_node' = (cur_task :> m.head)
          /\ calls' = calls \o <<Call("makeAsyncGraphNodes", cur_task),
                                 Call("append", m.tail)>>
    /\ terminal_async_nodes' = {}
    /\ pc' = "drain"
    /\ UNCHANGED <<sets, dvars, loop, cur_task, awaiters, stack, cr_frame, depth, frame, ret>>

\* IsExpanded with no memo map at all: every awaiter is expanded afresh.
IsExpandedNever(map, child_awaitable) == FALSE

\* IsExpanded as if the map had not been seeded with the current task.
IsExpandedUnseeded(map, child_awaitable) ==
    child_awaitable \in DOMAIN map \ {cur_task}

\* `child_awaitable in awaitable_to_head_node`
IsExpanded(map, child_awaitable) == child_awaitable \in DOMAIN map

\* The node the memo map records for a newly expanded awaitable.
MemoNode(child_node, child_head_node) == child_node

\* A test that takes every popped node for a terminal one.
IsTerminalAlways(aw) == TRUE

\* `len(awaiters) == 0`
IsTerminal(aw) == Cardinality(aw) = 0

\* The for loop over a popped node's awaiters, visited in `order`.
RECURSIVE DrainChildren(_, _, _)
DrainChildren(st, node, order) ==
    IF order = <<>>
    THEN st
    ELSE LET child_awaitable == Head(order)
         IN IF IsExpanded(st.map, child_awaitable)
            THEN DrainChildren(
                     [st EXCEPT !.g = AddEdge(st.g, node, st.map[child_awaitable])],
                     node, Tail(order))
            ELSE LET m == makeAsyncGraphNodes(st.g, child_awaitable)
                 IN DrainChildren(
                        [g |-> AddEdge(m.g, node, m.head),
                         q |-> Append(st.q, m.tail),
                         map |-> (child_awaitable :> MemoNode(m.tail, m.head)) @@ st.map,
                         calls |-> st.calls \o
                                   <<Call("makeAsyncGraphNodes", child_awaitable),
                                     Call("append", m.tail)>>],
                        node, Tail(order))

\* A loop that consumes the set it iterates (`while awaiters: awaiters.pop()`).
AwaitersAfterConsumed(aws, a) == [aws EXCEPT ![a] = {}]

\* The awaiter sets after an iteration on the node of awaitable a: line 157
\* binds the very set a.get_awaiters() returns, and lines 158-169 only take
\* its length and iterate it.
AwaitersAfter(aws, a) == aws

\* One iteration of `while node_q`.
DrainStep ==
    /\ pc = "drain"
    /\ node_q # <<>>
    /\ LET node == node_q[Len(node_q)]
           aw == get_awaiters(G, node)
       IN /\ terminal_async_nodes' =
                 IF IsTerminal(aw)
                 THEN terminal_async_nodes \cup {node}
                 ELSE terminal_async_nodes
          /\ \E order \in Orders(aw) :
                LET st == DrainChildren(
                              [g |-> G,
                               q |-> SubSeq(node_q, 1, Len(node_q) - 1),
                               map |-> awaitable_to_head_node,
                               calls |-> IF nodes[node].kind = "awaitable"
                                         THEN Append(calls, Call("get_awaiters",
                                                         nodes[node].awaitable))
                                         ELSE calls],
                              node, order)
                IN /\ nodes' = st.g.nodes
                   /\ awaited_by' = st.g.awaited_by
                   /\ self_awaiters' = st.g.self_awaiters
                   /\ defaulted' = st.g.defaulted
                   /\ node_q' = st.q
                   /\ awaitable_to_head_node' = st.map
                   /\ calls' = st.calls
          /\ awaiters' = IF nodes[node].kind = "awaitable"
                         THEN AwaitersAfter(awaiters, nodes[node].awaitable)
                         ELSE awaiters
    /\ UNCHANGED <<sets, dvars, loop, cur_task, stack, cr_frame, depth, pc, frame,
                   head_node, tail_node, task_node, task_head_node, ret>>

\* An assert that never fails (as when assertions are compiled away).
AssertHoldsAlways(terminals) == TRUE

\* The condition of `assert len(terminal_async_nodes) > 0`.
AssertHolds(terminals) == Cardinality(terminals) > 0

\* `assert len(terminal_async_nodes) > 0`, once the worklist is empty.
AssertTerminal ==
    /\ pc = "drain"
    /\ node_q = <<>>
    /\ pc' = IF AssertHolds(terminal_async_nodes) THEN "top" ELSE "failed"
    /\ UNCHANGED <<evars, dvars, loop, cur_task, awaiters, stack, cr_frame, depth, nodes,
                   awaited_by, frame, head_node, tail_node, task_node,
                   task_head_node, node_q, terminal_async_nodes,
                   awaitable_to_head_node, ret, calls>>

\* TopWalk that stops silently when the chain is exhausted: no error node.
RECURSIVE TopWalkSilent(_)
TopWalkSilent(st) ==
    IF st.frame = st.exit
    THEN st
    ELSE LET g1 == NewNode(st.g, AsyncGraphNodeFrame(st.frame))
             new_node == Len(g1.nodes)
             g2 == IF st.head = None THEN g1 ELSE AddEdge(g1, st.tail, new_node)
             hd == IF st.head = None THEN new_node ELSE st.head
             fr == f_back(st.frame)
         IN IF fr = None
            THEN [st EXCEPT !.g = g2, !.frame = None, !.head = hd, !.tail = new_node]
            ELSE TopWalkSilent([st EXCEPT !.g = g2, !.frame = fr,
                                          !.head = hd, !.tail = new_node])

\* The while loop of the top graft.
RECURSIVE TopWalk(_)
TopWalk(st) ==
    IF st.frame = st.exit
    THEN st
    ELSE LET g1 == NewNode(st.g, AsyncGraphNodeFrame(st.frame))
             new_node == Len(g1.nodes)
             g2 == IF st.head = None THEN g1 ELSE AddEdge(g1, st.tail, new_node)
             hd == IF st.head = None THEN new_node ELSE st.head
             fr == f_back(st.frame)
         IN IF fr = None
            THEN LET g3 == NewNode(g2, AsyncGraphNodeError(ExitFrameText))
                     err == Len(g3.nodes)
                 IN [st EXCEPT !.g = AddEdge(g3, new_node, err),
                               !.frame = None, !.head = hd, !.tail = err]
            ELSE TopWalk([st EXCEPT !.g = g2, !.frame = fr,
                                    !.head = hd, !.tail = new_node])

\* Attach the top of the graph: the frames above the current task's exit frame.
TopGraft ==
    /\ pc = "top"
    /\ IF nodes[head_node].kind = "frame"
       THEN LET w == TopWalk([g |-> G, frame |-> frame, head |-> None,
                              tail |-> head_node,
                              exit |-> nodes[head_node].frame])
                g1 == AddEdge(w.g, w.tail, task_head_node)
            IN /\ nodes' = g1.nodes
               /\ awaited_by' = g1.awaited_by
               /\ self_awaiters' = g1.self_awaiters
               /\ defaulted' = g1.defaulted
               /\ frame' = w.frame
               /\ head_node' = w.head
               /\ tail_node' = w.tail
       ELSE UNCHANGED <<nodes, awaited_by, self_awaiters, defaulted, frame, head_node, tail_node>>
    /\ pc' = "bottom"
    /\ UNCHANGED <<sets, dvars, loop, cur_task, awaiters, stack, cr_frame, depth, task_node,
                   task_head_node, node_q, terminal_async_nodes,
                   awaitable_to_head_node, ret, calls>>

\* The search for the current task's entry frame: the frame after it, or None.
RECURSIVE SearchEntry(_, _)
SearchEntry(fr, cur_task_entry_frame) ==
    IF fr = None
    THEN None
    ELSE IF fr = cur_task_entry_frame
         THEN f_back(fr)
         ELSE SearchEntry(f_back(fr), cur_task_entry_frame)

\* AddFanIn that attaches the continuation to one terminal node only.
AddFanInOne(g, terminals, new_node) ==
    AddEdge(g, CHOOSE n \in terminals : TRUE, new_node)

\* terminal_async_node.awaited_by.add(new_node) for every terminal node.
AddFanIn(g, terminals, new_node) ==
    [g EXCEPT !.awaited_by =
        [n \in DOMAIN g.awaited_by |->
            IF n \in terminals THEN g.awaited_by[n] \cup {new_node}
            ELSE g.awaited_by[n]]]

\* The while loop wrapping the frames after the entry frame.
RECURSIVE BottomWalk(_)
BottomWalk(st) ==
    IF st.frame = None
    THEN st
    ELSE LET g1 == NewNode(st.g, AsyncGraphNodeFrame(st.frame))
             new_node == Len(g1.nodes)
             g2 == IF st.tail = None
                   THEN AddFanIn(g1, terminal_async_nodes, new_node)
                   ELSE AddEdge(g1, st.tail, new_node)
         IN BottomWalk([g |-> g2, frame |-> f_back(st.frame), tail |-> new_node])

\* Attach the bottom of the graph and return.
BottomGraft ==
    /\ pc = "bottom"
    /\ LET fr == SearchEntry(frame, cr_frame)
       IN IF fr = None
          THEN LET g1 == NewNode(G, AsyncGraphNodeError(EntryPointText))
                   new_node == Len(g1.nodes)
                   g2 == AddEdge(g1, tail_node, new_node)
               IN /\ nodes' = g2.nodes
                  /\ awaited_by' = g2.awaited_by
                  /\ self_awaiters' = g2.self_awaiters
                  /\ defaulted' = g2.defaulted
                  /\ frame' = None
                  /\ tail_node' = tail_node
          ELSE LET w == BottomWalk([g |-> G, frame |-> fr, tail |-> None])
               IN /\ nodes' = w.g.nodes
                  /\ awaited_by' = w.g.awaited_by
                  /\ self_awaiters' = w.g.self_awaiters
                  /\ defaulted' = w.g.defaulted
                  /\ frame' = None
                  /\ tail_node' = w.tail
    /\ ret' = head_node
    /\ pc' = "done"
    /\ UNCHANGED <<sets, dvars, loop, cur_task, awaiters, stack, cr_frame, depth, head_node,
                   task_node, task_head_node, node_q, terminal_async_nodes,
                   awaitable_to_head_node, calls>>

\* ------------------------------------------------------------ the inputs
\* The frames a task's expansion unrolls to, from its exit to its entry frame.
TaskStack(exit, entry) ==
    IF exit = None THEN <<>>
    ELSE IF exit = entry THEN <<exit>> ELSE <<exit, entry>>

\* Expansions of the awaitables other than the current task: a bare node
\* (a future) or one suspended coroutine frame and the node (a task).
OtherStacks ==
    {s \in [Awaitables -> {<<>>} \cup {<<CoroFrame(a)>> : a \in Awaitables}] :
        \A a \in Awaitables : s[a] \in {<<>>, <<CoroFrame(a)>>}}

\* No error node constructed yet, nothing added to the default's set object.
ErrIdle ==
    /\ sets = <<{}>>
    /\ self_awaiters = <<>>
    /\ defaulted = {}

Locals0 ==
    /\ nodes = <<>>
    /\ awaited_by = <<>>
    /\ pc = "start"
    /\ frame = 1
    /\ head_node = None
    /\ tail_node = None
    /\ task_node = None
    /\ task_head_node = None
    /\ node_q = <<>>
    /\ terminal_async_nodes = {}
    /\ awaitable_to_head_node = <<>>
    /\ ret = None
    /\ calls = <<>>
    /\ head = None
    /\ dpc = "idle"
    /\ graph = <<>>
    /\ seen = {}
    /\ next_id = 0
    /\ node_to_id = <<>>
    /\ q = <<>>
    /\ ErrIdle

\* What the runtime's add_awaiter calls can have registered: <<a, b>> for
\* a.add_awaiter(b).
Registrations ==
    {reg \in SUBSET (Awaitables \X Awaitables) : Cardinality(reg) <= MaxReg}

\* Every awaiter relation, under the stack of the docstring's example: the
\* caller's frame, the current task's coroutine frame, the frames below it.
InitDrain ==
    /\ loop = "running"
    /\ cur_task = 1
    /\ depth = MaxDepth
    /\ cr_frame = 2
    /\ \E reg \in Registrations :
          awaiters = [a \in Awaitables |-> {b \in Awaitables : <<a, b>> \in reg}]
    /\ \E s \in OtherStacks : stack = [s EXCEPT ![1] = TaskStack(2, 2)]
    /\ Locals0

\* Every frame chain and every place of the current task's exit and entry
\* frames, on or off the chain, with any set of awaiters of the current task.
InitGraft ==
    /\ \E mode \in {<<"none", None>>, <<"running", None>>, <<"running", 1>>} :
          loop = mode[1] /\ cur_task = mode[2]
    /\ depth \in 1 .. MaxDepth
    /\ cr_frame \in (1 .. depth) \cup {CoroFrame(1)}
    /\ \E aw1 \in SUBSET (Awaitables \ {1}) :
          awaiters = [a \in Awaitables |-> IF a = 1 THEN aw1 ELSE {}]
    /\ \E s \in OtherStacks, exit \in (0 .. depth) \cup {CoroFrame(1)} :
          \* on one chain the exit (innermost) frame comes first
          /\ (exit \in 1 .. depth /\ cr_frame \in 1 .. depth) => exit <= cr_frame
          /\ stack = [s EXCEPT ![1] = TaskStack(exit, cr_frame)]
    /\ Locals0

Init == InitDrain \/ InitGraft

Next ==
    \/ RaiseNoRunningLoop
    \/ Fallback
    \/ ExpandCurTask
    \/ DrainStep
    \/ AssertTerminal
    \/ TopGraft
    \/ BottomGraft

Spec == Init /\ [][Next]_vars

\* ---------------------------------------------------- async_graph_to_dot
\* Text is a sequence of characters.
Chars == {"a", "\"", "\n", "\\"}

\* str(node), for an error node: its text.
Str(n) == nodes[n].text

\* s.replace(old, new) for a one-character old.
RECURSIVE replace(_, _, _)
replace(s, old, new) ==
    IF s = <<>>
    THEN <<>>
    ELSE (IF Head(s) = old THEN new ELSE <<Head(s)>>) \o replace(Tail(s), old, new)

\* The literal '\\n': a backslash and an n.
NewlineReplacement == <<"\\", "n">>

\* The literal '\"' (in a single-quoted Python string the escape \" is the
\* quote character itself).
QuoteReplacement == <<"\"">>

\* str(node).replace("\n", '\\n').replace('"', '\"')
Label(n) == replace(replace(Str(n), "\n", NewlineReplacement), "\"", QuoteReplacement)

\* A node_id that hands out a new identifier at every call.
node_idFresh(st, node) ==
    [st EXCEPT !.node_to_id = (node :> (st.next_id + 1)) @@ st.node_to_id,
               !.next_id = st.next_id + 1]

\* node_id(node): the identifiers after the call; the identifier is ids[node].
node_id(st, node) ==
    IF node \in DOMAIN st.node_to_id
    THEN st
    ELSE [st EXCEPT !.node_to_id = (node :> (st.next_id + 1)) @@ st.node_to_id,
                    !.next_id = st.next_id + 1]

VertexLine(id, label) == [kind |-> "vertex", id |-> id, label |-> label, dst |-> None]
EdgeLine(src, dst) == [kind |-> "edge", id |-> src, label |-> <<>>, dst |-> dst]
OpenLine == [kind |-> "open", id |-> None, label |-> <<>>, dst |-> None]
CloseLine == [kind |-> "close", id |-> None, label |-> <<>>, dst |-> None]

Digits == <<"0", "1", "2", "3", "4", "5", "6", "7", "8", "9">>

\* The decimal digits of an identifier.
RECURSIVE Dec(_)
Dec(i) == IF i < 10 THEN <<Digits[i + 1]>> ELSE Dec(i \div 10) \o <<Digits[(i % 10) + 1]>>

\* The characters of a line of the document, as the f-strings format it.
Render(line) ==
    CASE line.kind = "open" -> <<"digraph {", "\n">>
      [] line.kind = "vertex" ->
            <<" ", " ", "n">> \o Dec(line.id) \o <<" ", "[label=", "\"">>
            \o line.label \o <<"\"", " shape=box];", "\n">>
      [] line.kind = "edge" ->
            <<"n">> \o Dec(line.id) \o <<" -> ", "n">> \o Dec(line.dst) \o <<";", "\n">>
      [] line.kind = "close" -> <<"}", "\n">>

\* IsSeen with the visited set ignored.
IsSeenNever(node, done) == FALSE

\* `node in seen`
IsSeen(node, done) == node \in done

\* A visited set that is never added to.
MarkSeenNot(done, node) == done

\* `seen.add(node)`
MarkSeen(done, node) == done \cup {node}

\* Lines 229-243: the locals, and the worklist holding the head.
DotStart ==
    /\ dpc = "start"
    /\ graph' = <<OpenLine>>
    /\ seen' = {}
    /\ next_id' = 0
    /\ node_to_id' = <<>>
    /\ q' = <<head>>
    /\ dpc' = "loop"
    /\ UNCHANGED <<evars, runtime, nodes, awaited_by, locals, head>>

\* The body of the for loop over a node's awaited_by, for one child:
\* `q.append(child)` and the edge line, with its two node_id calls.
DotChild(st, node, child) ==
    LET s1 == node_id(st, node)
        s2 == node_id(s1, child)
    IN [s2 EXCEPT !.q = Append(st.q, child),
                  !.graph = Append(st.graph,
                                   EdgeLine(s1.node_to_id[node],
                                            s2.node_to_id[child]))]

\* The for loop over a node's awaited_by, visited in `order`.  The state
\* after each child is bound as a value before the next child is handled.
RECURSIVE DotChildren(_, _, _)
DotChildren(st, node, order) ==
    IF order = <<>>
    THEN st
    ELSE DotChildren(
             CHOOSE after \in {DotChild(s, node, Head(order)) : s \in {st}} : TRUE,
             node, Tail(order))

\* One iteration of `while q`.
DotStep ==
    /\ dpc = "loop"
    /\ q # <<>>
    /\ LET node == q[Len(q)]
           rest == SubSeq(q, 1, Len(q) - 1)
       IN IF IsSeen(node, seen)
          THEN /\ q' = rest
               /\ UNCHANGED <<graph, seen, next_id, node_to_id>>
          ELSE \E order \in Orders(awaited_by[node]) :
                  LET s1 == node_id([node_to_id |-> node_to_id, next_id |-> next_id,
                                     q |-> rest, graph |-> graph], node)
                      s2 == [s1 EXCEPT !.graph =
                                Append(graph, VertexLine(s1.node_to_id[node], Label(node)))]
                      st == DotChildren(s2, node, order)
                  IN /\ seen' = MarkSeen(seen, node)
                     /\ graph' = st.graph
                     /\ q' = st.q
                     /\ next_id' = st.next_id
                     /\ node_to_id' = st.node_to_id
    /\ UNCHANGED <<evars, runtime, nodes, awaited_by, locals, head, dpc>>

\* The closing token, and the return.
DotFinish ==
    /\ dpc = "loop"
    /\ q = <<>>
    /\ graph' = Append(graph, CloseLine)
    /\ dpc' = "done"
    /\ UNCHANGED <<evars, runtime, nodes, awaited_by, locals, head, seen, next_id,
                   node_to_id, q>>

\* The graphs handed over: error nodes, so that str(node) is the text.
EdgeSets(k) ==
    {es \in SUBSET ((1 .. k) \X (1 .. k)) : Cardinality(es) <= MaxEdges}

RECURSIVE Texts(_)
Texts(len) ==
    IF len = 0
    THEN {<<>>}
    ELSE Texts(len - 1) \cup
         {Append(t, c) : t \in {u \in Texts(len - 1) : Len(u) = len - 1}, c \in Chars}

Idle ==
    /\ loop = "none"
    /\ cur_task = None
    /\ awaiters = [a \in Awaitables |-> {}]
    /\ stack = [a \in Awaitables |-> <<>>]
    /\ cr_frame = None
    /\ depth = 0
    /\ pc = "idle"
    /\ frame = None
    /\ head_node = None
    /\ tail_node = None
    /\ task_node = None
    /\ task_head_node = None
    /\ node_q = <<>>
    /\ terminal_async_nodes = {}
    /\ awaitable_to_head_node = <<>>
    /\ ret = None
    /\ calls = <<>>

DotLocals0 ==
    /\ head = 1
    /\ dpc = "start"
    /\ graph = <<>>
    /\ seen = {}
    /\ next_id = 0
    /\ node_to_id = <<>>
    /\ q = <<>>

\* Every graph of up to NumNodes nodes and MaxEdges edges (chains, diamonds,
\* cycles, self-edges, unreachable nodes), all nodes with the same text.
InitDotGraphs ==
    /\ \E k \in 1 .. NumNodes, es \in EdgeSets(NumNodes) :
          /\ es \subseteq (1 .. k) \X (1 .. k)
          /\ nodes = [n \in 1 .. k |-> AsyncGraphNodeError(<<"a">>)]
          /\ awaited_by = [n \in 1 .. k |-> {m \in 1 .. k : <<n, m>> \in es}]
          /\ self_awaiters = [n \in 1 .. k |-> DefaultAwaiters]
          /\ defaulted = 1 .. k
    /\ sets = <<{}>>
    /\ Idle
    /\ DotLocals0

\* Every text of up to MaxLabelLen characters, on a single node.
InitDotTexts ==
    /\ \E t \in Texts(MaxLabelLen) : nodes = <<AsyncGraphNodeError(t)>>
    /\ awaited_by = <<{}>>
    /\ self_awaiters = <<DefaultAwaiters>>
    /\ defaulted = {1}
    /\ sets = <<{}>>
    /\ Idle
    /\ DotLocals0

InitDot == InitDotGraphs \/ InitDotTexts

NextDot ==
    \/ DotStart
    \/ DotStep
    \/ DotFinish

SpecDot == InitDot /\ [][NextDot]_vars

\* The graphs of InitDotGraphs, as values.
DotGraphs ==
    UNION {{[nodes |-> [n \in 1 .. k |-> AsyncGraphNodeError(<<"a">>)],
             awaited_by |-> [n \in 1 .. k |-> {m \in 1 .. k : <<n, m>> \in es}],
             self_awaiters |-> [n \in 1 .. k |-> DefaultAwaiters],
             defaulted |-> 1 .. k] :
               es \in EdgeSets(k)} : k \in 1 .. NumNodes}

\* Before any call: no node yet.
InitIdle ==
    /\ nodes = <<>>
    /\ awaited_by = <<>>
    /\ ErrIdle
    /\ Idle
    /\ head = None
    /\ dpc = "idle"
    /\ graph = <<>>
    /\ seen = {}
    /\ next_id = 0
    /\ node_to_id = <<>>
    /\ q = <<>>

\* The call async_graph_to_dot(head) on the first node of one of the graphs.
DotCall ==
    /\ dpc = "idle"
    /\ \E g \in DotGraphs :
          /\ nodes' = g.nodes
          /\ awaited_by' = g.awaited_by
          /\ self_awaiters' = g.self_awaiters
          /\ defaulted' = g.defaulted
    /\ head' = 1
    /\ dpc' = "start"
    /\ UNCHANGED <<sets, runtime, locals, graph, seen, next_id, node_to_id, q>>

NextDotCall ==
    \/ DotCall
    \/ DotStart
    \/ DotStep
    \/ DotFinish

\* async_graph_to_dot is straight-line code that no one can suspend: once
\* called, while a step is possible, one is taken.
FairSpecDot == InitIdle /\ [][NextDotCall]_vars /\ WF_vars(NextDotCall)

\* -------------------------------------------------- AsyncGraphNodeError
\* The error nodes.
ErrorNodes == {n \in DOMAIN nodes : nodes[n].kind = "error"}

\* node.get_awaiters(), for an error node: the set object itself.
ErrorAwaiters(n) == get_awaiters(G, n)

\* The elements held by all the set objects together.
RECURSIVE Added(_)
Added(i) == IF i = 0 THEN 0 ELSE Cardinality(sets[i]) + Added(i - 1)

\* AsyncGraphNodeError(text): `awaiters` is the default's set object.
ConstructDefault ==
    /\ pc = "idle"
    /\ dpc = "idle"
    /\ Len(nodes) < MaxErr
    /\ LET g == NewNode(G, AsyncGraphNodeError(<<"a">>))
       IN /\ nodes' = g.nodes
          /\ awaited_by' = g.awaited_by
          /\ self_awaiters' = g.self_awaiters
          /\ defaulted' = g.defaulted
    /\ UNCHANGED <<runtime, locals, dvars, sets>>

\* AsyncGraphNodeError(text, awaiters): `awaiters` is a set object of the
\* caller's, new to the error nodes, holding any awaitables.
ConstructExplicit ==
    /\ pc = "idle"
    /\ dpc = "idle"
    /\ Len(nodes) < MaxErr
    /\ nodes' = Append(nodes, AsyncGraphNodeError(<<"a">>))
    /\ awaited_by' = Append(awaited_by, {})
    /\ \E given \in SUBSET Awaitables :
          /\ Added(Len(sets)) + Cardinality(given) <= MaxAdds
          /\ sets' = Append(sets, given)
    /\ self_awaiters' = Append(self_awaiters, Len(sets) + 1)
    /\ UNCHANGED <<runtime, locals, dvars, defaulted>>

\* node.get_awaiters().add(a), by a holder of error node `node`.
AddToAwaiters ==
    /\ pc = "idle"
    /\ dpc = "idle"
    /\ Added(Len(sets)) < MaxAdds
    /\ \E node \in ErrorNodes, a \in Awaitables :
          /\ a \notin ErrorAwaiters(node)
          /\ sets' = [sets EXCEPT ![self_awaiters[node]] = @ \cup {a}]
    /\ UNCHANGED <<runtime, nodes, awaited_by, locals, dvars, self_awaiters, defaulted>>

NextErr ==
    \/ ConstructDefault
    \/ ConstructExplicit
    \/ AddToAwaiters

SpecErr == InitIdle /\ [][NextErr]_vars

\* ================================================================ claims
\* Nodes reachable from the nodes of S through awaited_by.
RECURSIVE NodeReach(_)
NodeReach(S) ==
    LET T == S \cup UNION {awaited_by[n] : n \in S}
    IN IF T = S THEN S ELSE NodeReach(T)

\* Awaitables reachable from the awaitables of S through the awaiter relation.
RECURSIVE AwReach(_)
AwReach(S) ==
    LET T == S \cup UNION {awaiters[a] : a \in S}
    IN IF T = S THEN S ELSE AwReach(T)

Visited == AwReach({cur_task})

\* The nodes with an edge to n.
Preds(n) == {m \in DOMAIN nodes : n \in awaited_by[m]}

\* The nodes wrapping awaitable a.
NodesOfAwaitable(a) ==
    {n \in DOMAIN nodes : nodes[n].kind = "awaitable" /\ nodes[n].awaitable = a}

\* The nodes of the sub-graphs a's expansions made: its stack's frame nodes
\* and its own node.
SubGraph(a) ==
    NodesOfAwaitable(a) \cup
    {n \in DOMAIN nodes : /\ nodes[n].kind = "frame"
                          /\ \E i \in DOMAIN stack[a] : stack[a][i] = nodes[n].frame}

CallCount(op, arg) ==
    Cardinality({i \in DOMAIN calls : calls[i] = Call(op, arg)})

DrainDone == pc \in {"top", "bottom", "done", "failed"}

\* The frame the bottom graft's search starts from: where the top graft's
\* walk stopped.
BottomStart ==
    IF stack[cur_task] = <<>> THEN 1
    ELSE IF Head(stack[cur_task]) \in 1 .. depth THEN Head(stack[cur_task])
    ELSE None

\* The search meets the current task's entry frame.
EntryMet == BottomStart # None /\ cr_frame \in BottomStart .. depth

\* C1: with no running loop, or with a loop and no current task, the call
\* returns, and the result is the node of the caller's frame, head of a chain
\* with exactly one frame node per frame of the caller's f_back chain, in
\* caller order, each node with at most one successor, with no error node,
\* and no call was made on any awaitable.
C1_FallbackLinearChain ==
    (pc \in {"done", "raised"} /\ (NoRunningLoop \/ cur_task = None)) =>
        /\ pc = "done"
        /\ ret # None
        /\ nodes[ret] = AsyncGraphNodeFrame(1)
        /\ Len(nodes) = depth
        /\ NodeReach({ret}) = DOMAIN nodes
        /\ \A f \in 1 .. depth : \E n \in DOMAIN nodes :
              /\ nodes[n] = AsyncGraphNodeFrame(f)
              /\ awaited_by[n] = {m \in DOMAIN nodes :
                                     nodes[m] = AsyncGraphNodeFrame(f + 1)}
              /\ Cardinality(awaited_by[n]) = (IF f < depth THEN 1 ELSE 0)
        /\ \A n \in DOMAIN nodes : nodes[n].kind # "error"
        /\ calls = <<>>

\* C2: in cooperative mode, when the current task's head frame is on the
\* caller's chain (the caller's own frame included), the result is a node,
\* never None, and it is the node of the caller's frame.
C2_ReturnsCallerNode ==
    (/\ pc = "done"
     /\ Cooperative
     /\ stack[cur_task] # <<>>
     /\ Head(stack[cur_task]) \in 1 .. depth) =>
        /\ ret # None
        /\ nodes[ret].kind = "frame"
        /\ nodes[ret].frame = 1

\* C3: makeAsyncGraphNodes is never called twice on an awaitable nor on one
\* the current task does not reach through the awaiter relation, and once
\* the worklist is drained it has been called exactly once on each one reached.
C3_ExpandedExactlyOnce ==
    Cooperative =>
        /\ \A a \in Awaitables :
              CallCount("makeAsyncGraphNodes", a) <= (IF a \in Visited THEN 1 ELSE 0)
        /\ DrainDone =>
              \A a \in Visited : CallCount("makeAsyncGraphNodes", a) = 1

C3_Witness ==
    /\ Cooperative
    /\ DrainDone
    /\ Visited # Awaitables
    /\ \E w \in Visited : Cardinality({x \in Visited : w \in awaiters[x]}) >= 2

\* C4: an awaitable w that is an awaiter of exactly two visited awaitables x
\* and y has one node, and one vertex of its sub-graph has exactly the two
\* inbound edges from x's node and from y's node.
C4_SharedAwaiterOneVertex ==
    (Cooperative /\ pc = "top") =>
        \A w \in Visited \ {cur_task} :
            LET waited == {x \in Visited : w \in awaiters[x]}
            IN (Cardinality(waited) = 2 /\ w \notin waited) =>
                  /\ Cardinality(NodesOfAwaitable(w)) = 1
                  /\ \E v \in SubGraph(w) :
                        Preds(v) = UNION {NodesOfAwaitable(x) : x \in waited}

\* Twice the awaitables not yet expanded, plus the length of the worklist.
DrainMeasure ==
    2 * Cardinality(Awaitables \ DOMAIN awaitable_to_head_node) + Len(node_q)

\* No two enqueues are of the node of one awaitable.
EnqueuedOnce ==
    \A i, j \in DOMAIN calls :
        (calls[i].op = "append" /\ calls[j].op = "append" /\ i # j) =>
            nodes[calls[i].arg].awaitable # nodes[calls[j].arg].awaitable

\* C5: every iteration of the worklist loop strictly decreases a measure that
\* is never negative (twice the awaitables not yet expanded, plus the length
\* of the worklist), so the worklist is empty after at most that many
\* iterations, and no awaitable's node is enqueued twice.
C5_DrainTerminates ==
    [][(pc = "drain" /\ node_q # <<>>) =>
          /\ DrainMeasure' < DrainMeasure
          /\ DrainMeasure' >= 0
          /\ EnqueuedOnce']_vars

C5_Witness ==
    /\ Cooperative
    /\ pc = "drain"
    /\ node_q = <<>>
    /\ Visited = Awaitables
    /\ \E a \in Visited : cur_task \in awaiters[a]
    /\ \E w \in Visited : Cardinality({x \in Visited : w \in awaiters[x]}) >= 2

\* C6: when the entry-frame search fails, exactly one error node "Could not
\* link current task to entry point." exists and it is the one sink reachable
\* from every terminal node.
C6_EntryErrorSinkOfTerminals ==
    (pc = "done" /\ Cooperative /\ ~EntryMet) =>
        LET E == {n \in DOMAIN nodes : nodes[n] = AsyncGraphNodeError(EntryPointText)}
        IN /\ Cardinality(E) = 1
           /\ \A t \in terminal_async_nodes :
                 {n \in NodeReach({t}) : awaited_by[n] = {}} = E

\* From node n, the nodes of the frames f .. depth form a chain that ends in
\* an exit-frame error node with the task's head node in its awaited_by.
RECURSIVE ChainEndsInExitError(_, _)
ChainEndsInExitError(n, f) ==
    /\ nodes[n] = AsyncGraphNodeFrame(f)
    /\ Cardinality(awaited_by[n]) = 1
    /\ \A m \in awaited_by[n] :
          IF f < depth
          THEN ChainEndsInExitError(m, f + 1)
          ELSE /\ nodes[m] = AsyncGraphNodeError(ExitFrameText)
               /\ task_head_node \in awaited_by[m]

\* The current task's head is a frame node of a frame not on the chain.
ExitFrameMissing ==
    /\ Cooperative
    /\ stack[cur_task] # <<>>
    /\ Head(stack[cur_task]) \notin 1 .. depth

\* C7: when the current task's head frame is not on the caller's chain, the
\* call does not abort in the graft (only the assertion on the terminal nodes
\* can end it) and returns the node of the caller's frame; the nodes of the
\* caller's frames form a chain from it, in order, that ends in the one error
\* node "Could not find exit frame for current task", which is reachable from
\* the result and has the task's head node in its awaited_by set.
C7_ExitFrameNotFound ==
    /\ (pc = "failed" /\ ExitFrameMissing) => terminal_async_nodes = {}
    /\ (pc = "done" /\ ExitFrameMissing) =>
        /\ ret # None
        /\ ChainEndsInExitError(ret, 1)
        /\ Cardinality({n \in DOMAIN nodes :
                           nodes[n] = AsyncGraphNodeError(ExitFrameText)}) = 1
        /\ \E e \in NodeReach({ret}) :
              nodes[e] = AsyncGraphNodeError(ExitFrameText)

C7_Witness ==
    /\ pc = "done"
    /\ ExitFrameMissing
    /\ depth >= 2
    /\ cr_frame \in 1 .. depth

\* C8: when the entry frame is met, the bottom graft creates exactly one
\* frame node for each frame after it, in caller order, each linked to the
\* next, and the first of them is in the awaited_by set of every terminal node.
C8_BottomGraftFanIn ==
    [][(pc = "bottom" /\ pc' = "done" /\ EntryMet) =>
          LET old == Len(nodes)
              k == depth - cr_frame
          IN /\ \A n \in 1 .. old : nodes'[n] = nodes[n]
             /\ {n \in DOMAIN nodes' : n > old /\ nodes'[n].kind = "frame"}
                   = (old + 1) .. (old + k)
             /\ \A i \in 1 .. k :
                   /\ nodes'[old + i] = AsyncGraphNodeFrame(cr_frame + i)
                   /\ awaited_by'[old + i] = (IF i < k THEN {old + i + 1} ELSE {})
             /\ k >= 1 => \A t \in terminal_async_nodes : (old + 1) \in awaited_by'[t]
             /\ \A n \in 1 .. old :
                   awaited_by'[n] \ awaited_by[n] \subseteq
                       (IF n \in terminal_async_nodes /\ k >= 1 THEN {old + 1}
                        ELSE IF k = 0 THEN {old + 1} ELSE {})]_vars

C8_Witness ==
    /\ pc = "done"
    /\ Cooperative
    /\ EntryMet
    /\ depth - cr_frame >= 2
    /\ Cardinality(terminal_async_nodes) >= 2
    /\ \A t \in terminal_async_nodes :
          \E n \in awaited_by[t] : nodes[n] = AsyncGraphNodeFrame(cr_frame + 1)

\* The lines of one kind of the document.
Lines(kind) == {i \in DOMAIN graph : graph[i].kind = kind}

\* C9: the finished document holds exactly one vertex line for every node
\* reachable from head and exactly one edge line for every edge leaving a
\* reachable node, and nothing else: no line and no identifier for an
\* unreachable node.
C9_EveryNodeAndEdgeOnce ==
    dpc = "done" =>
        LET R == NodeReach({head})
        IN /\ DOMAIN node_to_id = R
           /\ \A n, m \in R : node_to_id[n] = node_to_id[m] => n = m
           /\ \A n \in R :
                 Cardinality({i \in Lines("vertex") : graph[i].id = node_to_id[n]}) = 1
           /\ Cardinality(Lines("vertex")) = Cardinality(R)
           /\ \A n \in R : \A c \in awaited_by[n] :
                 Cardinality({i \in Lines("edge") :
                                 /\ graph[i].id = node_to_id[n]
                                 /\ graph[i].dst = node_to_id[c]}) = 1
           /\ Cardinality(Lines("edge")) =
                 Cardinality({e \in R \X R : e[2] \in awaited_by[e[1]]})

C9_Witness ==
    /\ dpc = "done"
    /\ NodeReach({head}) # DOMAIN nodes
    /\ \E n \in NodeReach({head}) : n \in awaited_by[n]
    /\ \E n \in NodeReach({head}) : Cardinality(Preds(n) \cap NodeReach({head})) >= 2
    /\ \E n \in DOMAIN nodes \ NodeReach({head}) : awaited_by[n] # {}

\* The quotes of a line that no backslash precedes.
UnescapedQuotes(text) ==
    {i \in DOMAIN text : text[i] = "\"" /\ (i = 1 \/ text[i - 1] # "\\")}

\* C10: a node whose text holds a double quote and a newline is rendered as
\* one vertex line whose only newline ends the line and whose only
\* unescaped quotes are the two delimiting the label.
C10_QuoteAndNewlineEscaped ==
    dpc = "done" =>
        \A n \in DOMAIN node_to_id :
            (\E i, j \in DOMAIN Str(n) : Str(n)[i] = "\"" /\ Str(n)[j] = "\n") =>
                \A l \in Lines("vertex") :
                    graph[l].id = node_to_id[n] =>
                        LET text == Render(graph[l])
                        IN /\ {i \in DOMAIN text : text[i] = "\n"} = {Len(text)}
                           /\ Cardinality(UnescapedQuotes(text)) = 2

\* The nodes the expansions of the visited awaitables created, and no other.
OnlyExpansions ==
    /\ \A n \in DOMAIN nodes : \E a \in Visited : n \in SubGraph(a)
    /\ \A a \in Visited : Cardinality(NodesOfAwaitable(a)) = 1
    /\ \A n \in DOMAIN nodes : nodes[n].kind # "error"

\* C11: the drain ends with no terminal node exactly when every visited
\* awaitable has an awaiter; the call then fails at the assertion: nothing is
\* returned, the caller's frame has not been walked, the graph holds only the
\* nodes of the expansions; and no graft or return happens without a terminal
\* node.
C11_NoTerminalAborts ==
    Cooperative =>
        /\ (DrainDone /\ terminal_async_nodes = {}) => pc = "failed"
        /\ (DrainDone /\ \A a \in Visited : awaiters[a] # {}) => pc = "failed"
        /\ pc \in {"top", "bottom", "done"} => terminal_async_nodes # {}
        /\ pc = "failed" =>
              /\ terminal_async_nodes = {}
              /\ \A a \in Visited : awaiters[a] # {}
              /\ ret = None
              /\ frame = 1
              /\ head_node = task_head_node
              /\ tail_node = task_node
              /\ OnlyExpansions

C11_Witness ==
    /\ Cooperative
    /\ pc = "failed"
    /\ Cardinality(Visited) >= 2
    /\ \E a \in Visited \ {cur_task} : cur_task \in awaiters[a]

\* C12: no step of get_async_graph changes any awaitable's awaiter set, and
\* the only calls made on awaitables are makeAsyncGraphNodes and get_awaiters
\* (the log also holds the worklist appends): add_awaiter is never called.
C12_AwaitersNeverMutated ==
    [][/\ \A a \in Awaitables : awaiters'[a] = awaiters[a]
       /\ \A i \in DOMAIN calls' :
             calls'[i].op \in {"makeAsyncGraphNodes", "get_awaiters", "append"}]_vars

C12_Witness ==
    /\ pc = "done"
    /\ Cooperative
    /\ Visited = Awaitables
    /\ \A a \in Awaitables : CallCount("get_awaiters", a) = 1
    /\ \E a \in Awaitables : Cardinality(awaiters[a]) >= 2

\* The awaiter relation has no cycle among the awaitables the current task reaches.
AcyclicAwaiters == \A a \in Visited : a \notin AwReach(awaiters[a])

\* The nodes on a cycle of awaited_by (self-edges included).
OnCycle == {n \in DOMAIN nodes : n \in NodeReach(awaited_by[n])}

\* C13: when the awaiter relation reachable from the current task is acyclic
\* (the expansions are chains, so acyclic), the returned graph is a DAG: no
\* node is reachable from itself, none is in its own awaited_by set.
C13_ReturnedGraphIsDag ==
    (pc = "done" /\ Cooperative /\ AcyclicAwaiters) =>
        /\ OnCycle = {}
        /\ \A n \in DOMAIN nodes : n \notin awaited_by[n]

\* The head node of the expansion of an expanded awaitable a: an expansion
\* creates the nodes of a's stack and then a's node, the tail.
HeadNodeOf(a) == (CHOOSE n \in NodesOfAwaitable(a) : TRUE) - Len(stack[a])
TailNodeOf(a) == CHOOSE n \in NodesOfAwaitable(a) : TRUE

\* C14: the memo map holds, for every expanded awaitable, the head node of
\* its expansion, and every edge from the node of an awaitable it awaits
\* targets that head node, on first discovery and on every revisit.
C14_MemoMapsToHead ==
    (Cooperative /\ pc \in {"drain", "top"}) =>
        \A a \in DOMAIN awaitable_to_head_node :
            /\ awaitable_to_head_node[a] = HeadNodeOf(a)
            /\ \A x \in DOMAIN awaitable_to_head_node :
                  (a \in awaiters[x] /\ CallCount("get_awaiters", x) = 1) =>
                      /\ HeadNodeOf(a) \in awaited_by[TailNodeOf(x)]
                      /\ Len(stack[a]) > 0 => TailNodeOf(a) \notin awaited_by[TailNodeOf(x)]

\* The error nodes "Could not link current task to entry point.".
EntryErrors == {n \in DOMAIN nodes : nodes[n] = AsyncGraphNodeError(EntryPointText)}

\* C15: the returned graph holds the error node "Could not link current task
\* to entry point." exactly when the frames the bottom graft walks do not
\* include the current task's entry frame; when they do, the last frame of
\* the chain included, there is no such node.
C15_EntryErrorIffEntryMissing ==
    (pc = "done" /\ Cooperative) =>
        /\ ~EntryMet => Cardinality(EntryErrors) = 1
        /\ EntryMet => EntryErrors = {}

\* C16: under an awaiter relation that is acyclic on the awaitables the
\* current task reaches, the worklist empties with a terminal node, so the
\* assertion holds and the top graft is next; and a node only ever joins
\* terminal_async_nodes in the iteration that pops it, as the node of a
\* visited awaitable whose awaiter set is empty at that moment.
C16_AcyclicHasTerminal ==
    [][/\ (pc = "drain" /\ node_q = <<>> /\ AcyclicAwaiters) =>
              /\ terminal_async_nodes # {}
              /\ pc' = "top"
       /\ \A t \in terminal_async_nodes' \ terminal_async_nodes :
              /\ pc = "drain"
              /\ node_q # <<>>
              /\ t = node_q[Len(node_q)]
              /\ nodes[t].kind = "awaitable"
              /\ nodes[t].awaitable \in Visited
              /\ awaiters[nodes[t].awaitable] = {}]_vars

C16_Witness ==
    /\ Cooperative
    /\ pc = "top"
    /\ AcyclicAwaiters
    /\ Visited = Awaitables
    /\ Cardinality(terminal_async_nodes) >= 2

\* The worklist's length plus, for every node not yet expanded, one more
\* than the number of its children.
RECURSIVE SumOut(_)
SumOut(S) ==
    IF S = {} THEN 0
    ELSE LET n == CHOOSE x \in S : TRUE
         IN Cardinality(awaited_by[n]) + 1 + SumOut(S \ {n})

DotMeasure == Len(q) + SumOut(DOMAIN nodes \ seen)

\* C17: every render ends: the worklist empties and the closing token is the
\* last line, on graphs with cycles and self-edges too; each iteration
\* strictly decreases a measure that is never negative, and a vertex line is
\* only written for a node not yet in the visited set, which then joins it.
C17_DotTerminates ==
    /\ <>(dpc = "done" /\ q = <<>> /\ graph[Len(graph)] = CloseLine)
    /\ (dpc = "start") ~> (dpc = "done")
    /\ [][(dpc = "loop" /\ q # <<>>) =>
             /\ DotMeasure' < DotMeasure
             /\ DotMeasure' >= 0
             /\ Lines("vertex")' # Lines("vertex") =>
                   /\ q[Len(q)] \notin seen
                   /\ seen' = seen \cup {q[Len(q)]}
                   /\ Cardinality(Lines("vertex")') = Cardinality(Lines("vertex")) + 1]_vars

C17_Witness ==
    /\ dpc = "done"
    /\ \E n \in NodeReach({head}) : n \in awaited_by[n]
    /\ \E n, m \in NodeReach({head}) :
          n # m /\ m \in awaited_by[n] /\ n \in NodeReach({m})
    /\ graph[Len(graph)] = CloseLine

\* The identifiers the edge lines of the document name.
EdgeIds == {graph[i].id : i \in Lines("edge")} \cup {graph[i].dst : i \in Lines("edge")}

\* C18: in one render, a node's identifier, once given, never changes;
\* different nodes have different identifiers, identical texts or not; and
\* in the finished document every identifier of an edge line is declared by
\* exactly one vertex line.
C18_IdentifiersConsistent ==
    /\ [][\A n \in DOMAIN node_to_id :
             /\ n \in DOMAIN node_to_id'
             /\ node_to_id'[n] = node_to_id[n]]_vars
    /\ [](/\ \A n, m \in DOMAIN node_to_id :
                n # m => node_to_id[n] # node_to_id[m]
          /\ \A n \in DOMAIN node_to_id : node_to_id[n] \in 1 .. next_id
          /\ dpc = "done" =>
                \A id \in EdgeIds :
                    Cardinality({i \in Lines("vertex") : graph[i].id = id}) = 1)

C18_Witness ==
    /\ dpc = "done"
    /\ Cardinality(DOMAIN node_to_id) >= 3
    /\ \A n, m \in DOMAIN nodes : nodes[n].text = nodes[m].text
    /\ \E n \in DOMAIN node_to_id : Cardinality(Preds(n)) >= 2
    /\ \E i \in Lines("edge"), j \in Lines("vertex") :
          graph[j].id = graph[i].dst /\ j > i + 1

\* C19: the awaiter sets of two different error nodes, one of them
\* constructed with no awaiters argument, never change in the same step: an
\* element added through one error node shows in no other error node.
C19_DefaultSetsIndependent ==
    [][\A n \in defaulted : \A m \in ErrorNodes \ {n} :
          ErrorAwaiters(n)' # ErrorAwaiters(n) =>
              ErrorAwaiters(m)' = ErrorAwaiters(m)]_vars

====
